---- MODULE Spec2Model ----
(***************************************************************************)
(* A model of bot.py: the per-user profile wizard, the food flow and the   *)
(* in-memory ledger `users`, driven by the updates the dispatcher routes   *)
(* to the handlers registered in main().                                   *)
(*                                                                         *)
(* Numbers.  Python floats (weight, height, water_goal, temperature,      *)
(* logged_calories, food amounts) are held in hundredths: 70.0 is 7000.   *)
(* Python ints (age, activity, calorie_goal, logged_water,                 *)
(* burned_calories, durations) are held as they are.  Every product and   *)
(* quotient below is exact for the inputs drawn; int() is Trunc.          *)
(* None is the empty set and a present value v is {v}.                     *)
(***************************************************************************)
EXTENDS Integers, Sequences, FiniteSets, TLC

VARIABLES users, profile_conv, food_conv, reply, ledger_sums, wizard_entry, runs,
          calc, in_flight

vars == <<users, profile_conv, food_conv, reply, ledger_sums, wizard_entry, runs, calc, in_flight>>

-----------------------------------------------------------------------------
(* Bounds of the exploration *)

\* /set_profile entries accepted plus logging operations (water, food, workout)
\* stored in one behaviour, all users together
MaxOps == 4

Users == {1, 2}
Chats == {1, 2}
\* a conversation is kept per (chat, user)
ConvKeys == Chats \X Users
\* Spec follows one user in one chat; SpecChats follows the same user in two
\* chats; SpecUsers follows two users in one group chat
MainUsers == {1}
MainKeys == {<<1, 1>>}
ChatKeys == {<<1, 1>>, <<2, 1>>}
UserKeys == {<<1, 1>>, <<1, 2>>}

-----------------------------------------------------------------------------
(* Conversation states, bot.py line 25 *)

WEIGHT == 0
HEIGHT == 1
AGE == 2
GENDER == 3
ACTIVITY == 4
CITY == 5
FOOD_AMOUNT == 6
END == -1

-----------------------------------------------------------------------------
(* Optional values and arithmetic helpers *)

None == {}
Some(v) == {v}
Val(o) == CHOOSE v \in o : TRUE

\* Python truthiness of an optional number: None and 0 are falsy
Truthy(o) == o # None /\ Val(o) # 0

\* int(n/d) for d > 0: truncation toward zero
Trunc(n, d) == IF n >= 0 THEN n \div d ELSE -((-n) \div d)

Max(a, b) == IF a >= b THEN a ELSE b

-----------------------------------------------------------------------------
(* Message texts and their parsing *)

\* float(text): the value in hundredths, or None for ValueError
ParseFloat(t) ==
    CASE t = "0"   -> Some(0)
      [] t = "-5"  -> Some(-500)
      [] t = "2.5" -> Some(250)
      [] t = "30"  -> Some(3000)
      [] t = "45"  -> Some(4500)
      [] t = "70"  -> Some(7000)
      [] t = "150" -> Some(15000)
      [] t = "160" -> Some(16000)
      [] t = "175" -> Some(17500)
      [] t = "341" -> Some(34100)
      [] t = "750" -> Some(75000)
      [] OTHER     -> None

\* int(text): the value, or None for ValueError ("2.5" is no integer literal)
ParseInt(t) ==
    IF ParseFloat(t) = None \/ Val(ParseFloat(t)) % 100 # 0
    THEN None
    ELSE Some(Val(ParseFloat(t)) \div 100)

-----------------------------------------------------------------------------
(* GoalCalculator: the pure functions *)

\* calculate_water_goal with the activity bonus prorated instead of per full
\* 30-minute block
calculate_water_goal_prorated(weight, activity_minutes, temperature) ==
    LET base == weight * 30
        activity_bonus == (activity_minutes * 500) \div 30
        temp_bonus == IF Truthy(temperature) /\ Val(temperature) > 2500 THEN 750
                      ELSE IF Truthy(temperature) /\ Val(temperature) > 2000 THEN 500
                      ELSE 0
    IN  base + (activity_bonus + temp_bonus) * 100

\* weight in hundredths of kg, activity_minutes an int, temperature an optional
\* number of hundredths of a degree; the result is in hundredths of ml
calculate_water_goal(weight, activity_minutes, temperature) ==
    LET base == weight * 30
        activity_bonus == (activity_minutes \div 30) * 500
        temp_bonus == IF Truthy(temperature) /\ Val(temperature) > 2500 THEN 750
                      ELSE IF Truthy(temperature) /\ Val(temperature) > 2000 THEN 500
                      ELSE 0
    IN  base + (activity_bonus + temp_bonus) * 100

\* calculate_calorie_goal with the activity bonus per full 30-minute block
calculate_calorie_goal_blocks(weight, height, age, gender, activity_minutes) ==
    LET bmr1200 == IF gender = "M"
                   THEN 120 * weight + 75 * height - 6000 * age + 1200 * 5
                   ELSE 120 * weight + 75 * height - 6000 * age - 1200 * 161
        activity_bonus1200 == (activity_minutes \div 30) * 250 * 1200
    IN  Trunc(bmr1200 + activity_bonus1200, 1200)

\* bmr + activity_bonus over the common denominator 1200, then int(); the
\* result is an int (kcal).  gender is "M" for the Cyrillic letter U+041C
\* the code compares with, anything else takes the else branch.
calculate_calorie_goal(weight, height, age, gender, activity_minutes) ==
    LET bmr1200 == IF gender = "M"
                   THEN 120 * weight + 75 * height - 6000 * age + 1200 * 5
                   ELSE 120 * weight + 75 * height - 6000 * age - 1200 * 161
        activity_bonus1200 == activity_minutes * 10000
    IN  Trunc(bmr1200 + activity_bonus1200, 1200)

\* lookup is the calories_per_hour the burn-rate service answered, or None
\* when the request failed, answered another status or an empty list
get_calories_burned(lookup, duration_minutes, weight) ==
    IF lookup # None
    THEN Trunc(Val(lookup) * weight * duration_minutes, 60 * 70 * 100)
    ELSE Trunc(duration_minutes * 5 * weight, 70 * 100)

-----------------------------------------------------------------------------
(* The users dictionary *)

BlankUser ==
    [weight |-> None, height |-> None, age |-> None, gender |-> None,
     activity |-> None, city |-> None, water_goal |-> None, calorie_goal |-> None,
     logged_water |-> 0, logged_calories |-> 0, burned_calories |-> 0,
     water_history |-> <<>>, calorie_history |-> <<>>, temp_food_data |-> None]

\* init_user_data building the dictionary anew when it adds a user
init_user_data_resetting(us, user_id) ==
    IF user_id \in DOMAIN us
    THEN us
    ELSE [v \in DOMAIN us \cup {user_id} |-> BlankUser]

init_user_data(us, user_id) ==
    IF user_id \in DOMAIN us
    THEN us
    ELSE [v \in DOMAIN us \cup {user_id} |-> IF v = user_id THEN BlankUser ELSE us[v]]

\* the six base attributes and the two goals of a record
Profile(r) == <<r.weight, r.height, r.age, r.gender, r.activity, r.city,
                r.water_goal, r.calorie_goal>>

\* logging operations stored so far by a user: log_water leaves a positive
\* total in water_history, a food a snapshot in calorie_history, a workout one
\* entry in each (counted once, in calorie_history)
LogsOf(r) ==
    Len(r.calorie_history)
    + Cardinality({i \in 1..Len(r.water_history) : r.water_history[i] > 0})

RECURSIVE LogsIn(_, _)
LogsIn(us, S) ==
    IF S = {} THEN 0
    ELSE LET v == CHOOSE w \in S : TRUE
         IN  LogsOf(us[v]) + LogsIn(us, S \ {v})

\* over all users
LogUsed == LogsIn(users, DOMAIN users)

\* the message a handler sends back: which handler ran, for whom, which of its
\* texts it chose and the numbers it put in it
Reply(h, u, m, x, y, z) == [handler |-> h, user |-> u, msg |-> m, x |-> x, y |-> y, z |-> z]

NoCalc == [fn |-> "none", w |-> 0, h |-> 0, age |-> 0, gender |-> "M", a |-> 0,
           t |-> None, out |-> 0]

Init ==
    /\ users = [v \in {} |-> BlankUser]
    /\ profile_conv = [k \in ConvKeys |-> END]
    /\ food_conv = [k \in ConvKeys |-> END]
    /\ reply = Reply("none", 0, "none", 0, 0, 0)
    /\ ledger_sums = [v \in Users |-> [food |-> 0, burn |-> 0]]
    /\ wizard_entry = [k \in ConvKeys |-> None]
    /\ runs = 0
    /\ calc = NoCalc
    /\ in_flight = {}

-----------------------------------------------------------------------------
(* The profile wizard *)

WeightTexts == {"abc", "0", "70"}
HeightTexts == {"abc", "175"}
AgeTexts == {"2.5", "30"}
GenderTexts == {"abc", "M"}
ActivityTexts == {"abc", "0"}
CityTexts == {"Moscow"}
\* what get_weather can return: None, or the temperature in hundredths
Temperatures == {None, Some(2600)}

start(u) ==
    /\ users' = init_user_data(users, u)
    /\ reply' = Reply("start", u, "commands", 0, 0, 0)
    /\ UNCHANGED <<profile_conv, food_conv, ledger_sums, wizard_entry, runs, calc, in_flight>>

\* entry point of profile_conv: taken only when (chat, user) has no wizard open
set_profile(u, c) ==
    /\ profile_conv[<<c, u>>] = END
    /\ runs + LogUsed < MaxOps
    /\ users' = init_user_data(users, u)
    /\ profile_conv' = [profile_conv EXCEPT ![<<c, u>>] = WEIGHT]
    /\ wizard_entry' = [wizard_entry EXCEPT ![<<c, u>>] = Some(Profile(users'[u]))]
    /\ runs' = runs + 1
    /\ reply' = Reply("set_profile", u, "ask_weight", 0, 0, 0)
    /\ UNCHANGED <<food_conv, ledger_sums, calc, in_flight>>

weight_handler(u, c, text) ==
    /\ profile_conv[<<c, u>>] = WEIGHT
    /\ IF ParseFloat(text) # None
       THEN /\ users' = [users EXCEPT ![u].weight = ParseFloat(text)]
            /\ profile_conv' = [profile_conv EXCEPT ![<<c, u>>] = HEIGHT]
            /\ reply' = Reply("weight_handler", u, "ask_height", 0, 0, 0)
       ELSE /\ reply' = Reply("weight_handler", u, "invalid", 0, 0, 0)
            /\ UNCHANGED <<users, profile_conv>>
    /\ UNCHANGED <<food_conv, ledger_sums, wizard_entry, runs, calc, in_flight>>

height_handler(u, c, text) ==
    /\ profile_conv[<<c, u>>] = HEIGHT
    /\ IF ParseFloat(text) # None
       THEN /\ users' = [users EXCEPT ![u].height = ParseFloat(text)]
            /\ profile_conv' = [profile_conv EXCEPT ![<<c, u>>] = AGE]
            /\ reply' = Reply("height_handler", u, "ask_age", 0, 0, 0)
       ELSE /\ reply' = Reply("height_handler", u, "invalid", 0, 0, 0)
            /\ UNCHANGED <<users, profile_conv>>
    /\ UNCHANGED <<food_conv, ledger_sums, wizard_entry, runs, calc, in_flight>>

age_handler(u, c, text) ==
    /\ profile_conv[<<c, u>>] = AGE
    /\ IF ParseInt(text) # None
       THEN /\ users' = [users EXCEPT ![u].age = ParseInt(text)]
            /\ profile_conv' = [profile_conv EXCEPT ![<<c, u>>] = GENDER]
            /\ reply' = Reply("age_handler", u, "ask_gender", 0, 0, 0)
       ELSE /\ reply' = Reply("age_handler", u, "invalid", 0, 0, 0)
            /\ UNCHANGED <<users, profile_conv>>
    /\ UNCHANGED <<food_conv, ledger_sums, wizard_entry, runs, calc, in_flight>>

gender_handler(u, c, text) ==
    /\ profile_conv[<<c, u>>] = GENDER
    /\ IF text \notin {"M", "F"}
       THEN /\ reply' = Reply("gender_handler", u, "invalid", 0, 0, 0)
            /\ UNCHANGED <<users, profile_conv>>
       ELSE /\ users' = [users EXCEPT ![u].gender = Some(text)]
            /\ profile_conv' = [profile_conv EXCEPT ![<<c, u>>] = ACTIVITY]
            /\ reply' = Reply("gender_handler", u, "ask_activity", 0, 0, 0)
    /\ UNCHANGED <<food_conv, ledger_sums, wizard_entry, runs, calc, in_flight>>

\* activity_handler sending the dialogue back to WEIGHT on a text that is no
\* integer
activity_handler_restarting(u, c, text) ==
    /\ profile_conv[<<c, u>>] = ACTIVITY
    /\ IF ParseInt(text) # None
       THEN /\ users' = [users EXCEPT ![u].activity = ParseInt(text)]
            /\ profile_conv' = [profile_conv EXCEPT ![<<c, u>>] = CITY]
            /\ reply' = Reply("activity_handler", u, "ask_city", 0, 0, 0)
       ELSE /\ reply' = Reply("activity_handler", u, "invalid", 0, 0, 0)
            /\ profile_conv' = [profile_conv EXCEPT ![<<c, u>>] = WEIGHT]
            /\ UNCHANGED users
    /\ UNCHANGED <<food_conv, ledger_sums, wizard_entry, runs, calc, in_flight>>

activity_handler(u, c, text) ==
    /\ profile_conv[<<c, u>>] = ACTIVITY
    /\ IF ParseInt(text) # None
       THEN /\ users' = [users EXCEPT ![u].activity = ParseInt(text)]
            /\ profile_conv' = [profile_conv EXCEPT ![<<c, u>>] = CITY]
            /\ reply' = Reply("activity_handler", u, "ask_city", 0, 0, 0)
       ELSE /\ reply' = Reply("activity_handler", u, "invalid", 0, 0, 0)
            /\ UNCHANGED <<users, profile_conv>>
    /\ UNCHANGED <<food_conv, ledger_sums, wizard_entry, runs, calc, in_flight>>

\* city_handler refusing to finish while get_weather has no temperature
city_handler_weather_required(u, c, text, temperature) ==
    /\ profile_conv[<<c, u>>] = CITY
    /\ IF temperature = None
       THEN /\ users' = [users EXCEPT ![u].city = Some(text)]
            /\ reply' = Reply("city_handler", u, "weather_error", 0, 0, 0)
            /\ UNCHANGED <<profile_conv, wizard_entry, ledger_sums>>
       ELSE LET user_data == users[u]
                water_goal == calculate_water_goal(Val(user_data.weight),
                                                   Val(user_data.activity), temperature)
                calorie_goal == calculate_calorie_goal(Val(user_data.weight),
                                                       Val(user_data.height),
                                                       Val(user_data.age),
                                                       Val(user_data.gender),
                                                       Val(user_data.activity))
            IN  /\ users' = [users EXCEPT ![u].city = Some(text),
                                          ![u].water_goal = Some(water_goal),
                                          ![u].calorie_goal = Some(calorie_goal),
                                          ![u].logged_water = 0,
                                          ![u].logged_calories = 0,
                                          ![u].burned_calories = 0]
                /\ reply' = Reply("city_handler", u, "profile", water_goal, calorie_goal, 0)
                /\ profile_conv' = [profile_conv EXCEPT ![<<c, u>>] = END]
                /\ wizard_entry' = [wizard_entry EXCEPT ![<<c, u>>] = None]
                /\ ledger_sums' = [ledger_sums EXCEPT ![u] = [food |-> 0, burn |-> 0]]
    /\ UNCHANGED <<food_conv, runs, calc, in_flight>>

\* temperature is what get_weather(city) returned
city_handler(u, c, text, temperature) ==
    /\ profile_conv[<<c, u>>] = CITY
    /\ LET user_data == users[u]
           water_goal == calculate_water_goal(Val(user_data.weight),
                                              Val(user_data.activity), temperature)
           calorie_goal == calculate_calorie_goal(Val(user_data.weight),
                                                  Val(user_data.height),
                                                  Val(user_data.age),
                                                  Val(user_data.gender),
                                                  Val(user_data.activity))
       IN  /\ users' = [users EXCEPT ![u].city = Some(text),
                                     ![u].water_goal = Some(water_goal),
                                     ![u].calorie_goal = Some(calorie_goal),
                                     ![u].logged_water = 0,
                                     ![u].logged_calories = 0,
                                     ![u].burned_calories = 0]
           /\ reply' = Reply("city_handler", u, "profile", water_goal, calorie_goal, 0)
    /\ profile_conv' = [profile_conv EXCEPT ![<<c, u>>] = END]
    /\ wizard_entry' = [wizard_entry EXCEPT ![<<c, u>>] = None]
    /\ ledger_sums' = [ledger_sums EXCEPT ![u] = [food |-> 0, burn |-> 0]]
    /\ UNCHANGED <<food_conv, runs, calc, in_flight>>

\* cancel dropping the goals of the profile whose setup it abandons
cancel_clearing_goals(u, c) ==
    /\ \/ profile_conv[<<c, u>>] # END
       \/ food_conv[<<c, u>>] # END
    /\ IF profile_conv[<<c, u>>] # END
       THEN /\ profile_conv' = [profile_conv EXCEPT ![<<c, u>>] = END]
            /\ wizard_entry' = [wizard_entry EXCEPT ![<<c, u>>] = None]
            /\ users' = [users EXCEPT ![u].water_goal = None, ![u].calorie_goal = None]
            /\ reply' = Reply("cancel", u, "cancelled_profile", 0, 0, 0)
            /\ UNCHANGED food_conv
       ELSE /\ food_conv' = [food_conv EXCEPT ![<<c, u>>] = END]
            /\ reply' = Reply("cancel", u, "cancelled_food", 0, 0, 0)
            /\ UNCHANGED <<users, profile_conv, wizard_entry>>
    /\ UNCHANGED <<ledger_sums, runs, calc, in_flight>>

\* fallback of both conversations; profile_conv is registered first, so it
\* takes /cancel when both are open for (chat, user)
cancel(u, c) ==
    /\ \/ profile_conv[<<c, u>>] # END
       \/ food_conv[<<c, u>>] # END
    /\ IF profile_conv[<<c, u>>] # END
       THEN /\ profile_conv' = [profile_conv EXCEPT ![<<c, u>>] = END]
            /\ wizard_entry' = [wizard_entry EXCEPT ![<<c, u>>] = None]
            /\ reply' = Reply("cancel", u, "cancelled_profile", 0, 0, 0)
            /\ UNCHANGED food_conv
       ELSE /\ food_conv' = [food_conv EXCEPT ![<<c, u>>] = END]
            /\ reply' = Reply("cancel", u, "cancelled_food", 0, 0, 0)
            /\ UNCHANGED <<profile_conv, wizard_entry>>
    /\ UNCHANGED <<users, ledger_sums, runs, calc, in_flight>>

-----------------------------------------------------------------------------
(* Direct ledger commands; context.args is a sequence of texts *)

\* line 311: what is left to drink, in hundredths of ml
water_left_clamped(water_goal, logged_water) == Max(0, water_goal - logged_water * 100)

water_left(water_goal, logged_water) == water_goal - logged_water * 100

\* line 476 with burned_calories added instead of subtracted
calorie_balance_added(user_data) ==
    user_data.logged_calories + user_data.burned_calories * 100

\* line 476: consumed minus burned, in hundredths of kcal
calorie_balance(user_data) ==
    user_data.logged_calories - user_data.burned_calories * 100

\* line 384 without the division by the reference serving
food_calories_per_gram(food_data, amount) == (food_data.calories * amount) \div 100

\* line 384: (calories / serving_size) * amount, in hundredths of kcal
food_calories(food_data, amount) ==
    (food_data.calories * amount) \div (food_data.serving_size * 100)

WaterArgs == {<<>>, <<"abc">>, <<"2.5">>, <<"0">>, <<"-5">>, <<"750">>}

log_water(u, args) ==
    LET us == init_user_data(users, u)
        amount == IF args # <<>> THEN ParseInt(args[1]) ELSE Some(0)
    IN  /\ IF ~Truthy(us[u].water_goal)
           THEN /\ users' = us
                /\ reply' = Reply("log_water", u, "profile_first", 0, 0, 0)
           ELSE IF amount = None \/ Val(amount) <= 0
           THEN /\ users' = us
                /\ reply' = Reply("log_water", u, "usage", 0, 0, 0)
           ELSE LET logged_water == us[u].logged_water + Val(amount)
                    remaining == water_left(Val(us[u].water_goal), logged_water)
                IN  /\ runs + LogUsed < MaxOps
                    /\ users' = [us EXCEPT
                           ![u].logged_water = logged_water,
                           ![u].water_history = Append(@, logged_water)]
                    /\ reply' = Reply("log_water", u,
                                      IF remaining <= 0 THEN "goal_met" ELSE "remaining",
                                      Val(amount), logged_water, remaining)
        /\ UNCHANGED <<profile_conv, food_conv, ledger_sums, wizard_entry, runs, calc, in_flight>>

WorkoutArgs == {<<>>, <<"run">>, <<"run", "abc">>, <<"run", "0">>, <<"run", "45">>}
\* what the burn-rate service can answer: nothing usable, or calories_per_hour
BurnRates == {None, Some(600)}

\* log_workout_start taking the extra water it recommends off logged_water
log_workout_start_debiting(u, args, lookup) ==
    LET us == init_user_data(users, u)
        duration == IF Len(args) >= 2 THEN ParseInt(args[Len(args)]) ELSE None
    IN  /\ IF ~Truthy(us[u].calorie_goal)
           THEN /\ users' = us
                /\ reply' = Reply("log_workout_start", u, "profile_first", 0, 0, 0)
           ELSE IF Len(args) < 2 \/ duration = None \/ Val(duration) <= 0
           THEN /\ users' = us
                /\ reply' = Reply("log_workout_start", u, "usage", 0, 0, 0)
           ELSE LET weight == Val(us[u].weight)
                    calories_burned == get_calories_burned(lookup, Val(duration), weight)
                    burned_calories == us[u].burned_calories + calories_burned
                IN  /\ runs + LogUsed < MaxOps
                    /\ users' = [us EXCEPT
                           ![u].burned_calories = burned_calories,
                           ![u].logged_water = @ - (Val(duration) \div 30) * 200,
                           ![u].calorie_history = Append(@, -(burned_calories * 100)),
                           ![u].water_history = Append(@, (Val(duration) \div 30) * (-200))]
                    /\ reply' = Reply("log_workout_start", u, "workout",
                                      calories_burned, (Val(duration) \div 30) * 200,
                                      Val(us[u].calorie_goal) * 100 - us[u].logged_calories
                                          + burned_calories * 100)
        /\ ledger_sums' =
             IF reply'.msg = "workout"
             THEN [ledger_sums EXCEPT ![u].burn = @ + reply'.x]
             ELSE ledger_sums
        /\ UNCHANGED <<profile_conv, food_conv, wizard_entry, runs, calc, in_flight>>

log_workout_start(u, args, lookup) ==
    LET us == init_user_data(users, u)
        duration == IF Len(args) >= 2 THEN ParseInt(args[Len(args)]) ELSE None
    IN  /\ IF ~Truthy(us[u].calorie_goal)
           THEN /\ users' = us
                /\ reply' = Reply("log_workout_start", u, "profile_first", 0, 0, 0)
           ELSE IF Len(args) < 2 \/ duration = None \/ Val(duration) <= 0
           THEN /\ users' = us
                /\ reply' = Reply("log_workout_start", u, "usage", 0, 0, 0)
           ELSE LET weight == Val(us[u].weight)
                    calories_burned == get_calories_burned(lookup, Val(duration), weight)
                    burned_calories == us[u].burned_calories + calories_burned
                IN  /\ runs + LogUsed < MaxOps
                    /\ users' = [us EXCEPT
                           ![u].burned_calories = burned_calories,
                           ![u].calorie_history = Append(@, -(burned_calories * 100)),
                           ![u].water_history = Append(@, (Val(duration) \div 30) * (-200))]
                    /\ reply' = Reply("log_workout_start", u, "workout",
                                      calories_burned, (Val(duration) \div 30) * 200,
                                      Val(us[u].calorie_goal) * 100 - us[u].logged_calories
                                          + burned_calories * 100)
        /\ ledger_sums' =
             IF reply'.msg = "workout"
             THEN [ledger_sums EXCEPT ![u].burn = @ + reply'.x]
             ELSE ledger_sums
        /\ UNCHANGED <<profile_conv, food_conv, wizard_entry, runs, calc, in_flight>>

check_progress(u) ==
    LET us == init_user_data(users, u)
        user_data == us[u]
    IN  /\ users' = us
        /\ IF ~Truthy(user_data.water_goal)
           THEN reply' = Reply("check_progress", u, "profile_first", 0, 0, 0)
           ELSE LET water_remaining == Val(user_data.water_goal) - user_data.logged_water * 100
                    balance == calorie_balance(user_data)
                    calorie_remaining == Val(user_data.calorie_goal) * 100 - balance
                IN  reply' = Reply("check_progress", u, "progress",
                                   Max(0, water_remaining), balance, calorie_remaining)
        /\ UNCHANGED <<profile_conv, food_conv, ledger_sums, wizard_entry, runs, calc, in_flight>>

show_graphs(u) ==
    LET us == init_user_data(users, u)
        user_data == us[u]
    IN  /\ users' = us
        /\ reply' = Reply("show_graphs", u,
               IF ~Truthy(user_data.water_goal) THEN "profile_first"
               ELSE IF user_data.water_history = <<>> /\ user_data.calorie_history = <<>>
               THEN "no_data"
               ELSE IF user_data.calorie_history # <<>> /\ Val(user_data.calorie_goal) = 0
               THEN "ZeroDivisionError"
               ELSE "photo", 0, 0, 0)
        /\ UNCHANGED <<profile_conv, food_conv, ledger_sums, wizard_entry, runs, calc, in_flight>>

-----------------------------------------------------------------------------
(* The food flow *)

FoodArgs == {<<>>, <<"apple">>}
\* what get_food_calories returns for a name it finds; energy-kcal_100g in hundredths
FoodDb(food_name) ==
    [name |-> food_name,
     calories |-> IF food_name = "apple" THEN 5200 ELSE 8900,
     serving_size |-> 100]
FoodAmountTexts == {"abc", "0", "-5", "150"}

\* log_food_start looking the food up and storing it before it tests the profile
log_food_start_lookup_first(u, c, args, found) ==
    LET us == init_user_data(users, u)
        food_data == IF args # <<>> /\ found THEN Some(FoodDb(args[1])) ELSE None
        stored == [us EXCEPT ![u].temp_food_data = food_data]
    IN  /\ food_conv[<<c, u>>] = END
        /\ IF ~Truthy(us[u].calorie_goal)
           THEN /\ users' = stored
                /\ reply' = Reply("log_food_start", u, "profile_first", 0, 0, 0)
                /\ UNCHANGED food_conv
           ELSE IF args = <<>>
           THEN /\ users' = us
                /\ reply' = Reply("log_food_start", u, "usage", 0, 0, 0)
                /\ UNCHANGED food_conv
           ELSE IF food_data = None
           THEN /\ users' = us
                /\ reply' = Reply("log_food_start", u, "not_found", 0, 0, 0)
                /\ UNCHANGED food_conv
           ELSE /\ users' = stored
                /\ reply' = Reply("log_food_start", u, "ask_amount",
                                  Val(food_data).calories, 0, 0)
                /\ food_conv' = [food_conv EXCEPT ![<<c, u>>] = FOOD_AMOUNT]
        /\ UNCHANGED <<profile_conv, ledger_sums, wizard_entry, runs, calc, in_flight>>

\* entry point of food_conv: taken only when (chat, user) has no food flow open.
\* found tells whether the nutrition lookup answered with a product.
log_food_start(u, c, args, found) ==
    LET us == init_user_data(users, u)
        food_data == IF args # <<>> /\ found THEN Some(FoodDb(args[1])) ELSE None
    IN  /\ food_conv[<<c, u>>] = END
        /\ IF ~Truthy(us[u].calorie_goal)
           THEN /\ users' = us
                /\ reply' = Reply("log_food_start", u, "profile_first", 0, 0, 0)
                /\ UNCHANGED food_conv
           ELSE IF args = <<>>
           THEN /\ users' = us
                /\ reply' = Reply("log_food_start", u, "usage", 0, 0, 0)
                /\ UNCHANGED food_conv
           ELSE IF food_data = None
           THEN /\ users' = us
                /\ reply' = Reply("log_food_start", u, "not_found", 0, 0, 0)
                /\ UNCHANGED food_conv
           ELSE /\ users' = [us EXCEPT ![u].temp_food_data = food_data]
                /\ reply' = Reply("log_food_start", u, "ask_amount",
                                  Val(food_data).calories, 0, 0)
                /\ food_conv' = [food_conv EXCEPT ![<<c, u>>] = FOOD_AMOUNT]
        /\ UNCHANGED <<profile_conv, ledger_sums, wizard_entry, runs, calc, in_flight>>

\* food_amount_handler taking a missing temp_food_data for a product of no
\* calories instead of failing on it
food_amount_handler_defaulted(u, c, text) ==
    LET amount == ParseFloat(text)
        food_data == IF users[u].temp_food_data = None
                     THEN Some([name |-> "", calories |-> 0, serving_size |-> 100])
                     ELSE users[u].temp_food_data
    IN  /\ profile_conv[<<c, u>>] = END
        /\ food_conv[<<c, u>>] = FOOD_AMOUNT
        /\ IF amount = None \/ Val(amount) <= 0
           THEN /\ reply' = Reply("food_amount_handler", u, "invalid", 0, 0, 0)
                /\ UNCHANGED <<users, food_conv, ledger_sums>>
           ELSE LET calories == food_calories(Val(food_data), Val(amount))
                    logged_calories == users[u].logged_calories + calories
                IN  /\ runs + LogUsed < MaxOps
                    /\ users' = [users EXCEPT
                           ![u].logged_calories = logged_calories,
                           ![u].calorie_history = Append(@, logged_calories),
                           ![u].temp_food_data = None]
                    /\ reply' = Reply("food_amount_handler", u, "logged", calories,
                                      logged_calories,
                                      Val(users[u].calorie_goal) * 100 - logged_calories
                                          + users[u].burned_calories * 100)
                    /\ food_conv' = [food_conv EXCEPT ![<<c, u>>] = END]
                    /\ ledger_sums' = [ledger_sums EXCEPT ![u].food = @ + calories]
        /\ UNCHANGED <<profile_conv, wizard_entry, runs, calc, in_flight>>

\* food_amount_handler offered every text of a chat whose food flow is open, as
\* if food_conv were registered ahead of profile_conv
food_amount_handler_ungated(u, c, text) ==
    LET amount == ParseFloat(text)
        food_data == users[u].temp_food_data
    IN  /\ food_conv[<<c, u>>] = FOOD_AMOUNT
        /\ IF amount = None \/ Val(amount) <= 0
           THEN /\ reply' = Reply("food_amount_handler", u, "invalid", 0, 0, 0)
                /\ UNCHANGED <<users, food_conv, ledger_sums>>
           ELSE IF food_data = None
           THEN /\ reply' = Reply("food_amount_handler", u, "TypeError", 0, 0, 0)
                /\ UNCHANGED <<users, food_conv, ledger_sums>>
           ELSE LET calories == food_calories(Val(food_data), Val(amount))
                    logged_calories == users[u].logged_calories + calories
                IN  /\ runs + LogUsed < MaxOps
                    /\ users' = [users EXCEPT
                           ![u].logged_calories = logged_calories,
                           ![u].calorie_history = Append(@, logged_calories),
                           ![u].temp_food_data = None]
                    /\ reply' = Reply("food_amount_handler", u, "logged", calories,
                                      logged_calories,
                                      Val(users[u].calorie_goal) * 100 - logged_calories
                                          + users[u].burned_calories * 100)
                    /\ food_conv' = [food_conv EXCEPT ![<<c, u>>] = END]
                    /\ ledger_sums' = [ledger_sums EXCEPT ![u].food = @ + calories]
        /\ UNCHANGED <<profile_conv, wizard_entry, runs, calc, in_flight>>

\* reached by a text only when profile_conv, registered before food_conv, has
\* no wizard open for (chat, user).  With temp_food_data None line 384 raises
\* TypeError, which except ValueError does not catch: no message is sent and
\* the conversation keeps its state.
food_amount_handler(u, c, text) ==
    LET amount == ParseFloat(text)
        food_data == users[u].temp_food_data
    IN  /\ profile_conv[<<c, u>>] = END
        /\ food_conv[<<c, u>>] = FOOD_AMOUNT
        /\ IF amount = None \/ Val(amount) <= 0
           THEN /\ reply' = Reply("food_amount_handler", u, "invalid", 0, 0, 0)
                /\ UNCHANGED <<users, food_conv, ledger_sums>>
           ELSE IF food_data = None
           THEN /\ reply' = Reply("food_amount_handler", u, "TypeError", 0, 0, 0)
                /\ UNCHANGED <<users, food_conv, ledger_sums>>
           ELSE LET calories == food_calories(Val(food_data), Val(amount))
                    logged_calories == users[u].logged_calories + calories
                IN  /\ runs + LogUsed < MaxOps
                    /\ users' = [users EXCEPT
                           ![u].logged_calories = logged_calories,
                           ![u].calorie_history = Append(@, logged_calories),
                           ![u].temp_food_data = None]
                    /\ reply' = Reply("food_amount_handler", u, "logged", calories,
                                      logged_calories,
                                      Val(users[u].calorie_goal) * 100 - logged_calories
                                          + users[u].burned_calories * 100)
                    /\ food_conv' = [food_conv EXCEPT ![<<c, u>>] = END]
                    /\ ledger_sums' = [ledger_sums EXCEPT ![u].food = @ + calories]
        /\ UNCHANGED <<profile_conv, wizard_entry, runs, calc, in_flight>>

-----------------------------------------------------------------------------
(* Updates no handler of main() takes: nothing is written, nothing is sent *)

Ignored == {"text", "cancel", "set_profile", "log_food"}

unhandled(u, c, what) ==
    /\ CASE what = "text" -> profile_conv[<<c, u>>] = END /\ food_conv[<<c, u>>] = END
         [] what = "cancel" -> profile_conv[<<c, u>>] = END /\ food_conv[<<c, u>>] = END
         [] what = "set_profile" -> profile_conv[<<c, u>>] # END
         [] what = "log_food" -> food_conv[<<c, u>>] # END
    /\ UNCHANGED vars

-----------------------------------------------------------------------------

Next ==
    \/ \E u \in MainUsers : start(u)
    \/ \E k \in MainKeys : set_profile(k[2], k[1])
    \/ \E k \in MainKeys, text \in WeightTexts : weight_handler(k[2], k[1], text)
    \/ \E k \in MainKeys, text \in HeightTexts : height_handler(k[2], k[1], text)
    \/ \E k \in MainKeys, text \in AgeTexts : age_handler(k[2], k[1], text)
    \/ \E k \in MainKeys, text \in GenderTexts : gender_handler(k[2], k[1], text)
    \/ \E k \in MainKeys, text \in ActivityTexts : activity_handler(k[2], k[1], text)
    \/ \E k \in MainKeys, text \in CityTexts, t \in Temperatures :
          city_handler(k[2], k[1], text, t)
    \/ \E k \in MainKeys : cancel(k[2], k[1])
    \/ \E u \in MainUsers, args \in WaterArgs : log_water(u, args)
    \/ \E k \in MainKeys, args \in FoodArgs, found \in BOOLEAN :
          log_food_start(k[2], k[1], args, found)
    \/ \E k \in MainKeys, text \in FoodAmountTexts : food_amount_handler(k[2], k[1], text)
    \/ \E u \in MainUsers, args \in WorkoutArgs, lookup \in BurnRates :
          log_workout_start(u, args, lookup)
    \/ \E u \in MainUsers : check_progress(u)
    \/ \E u \in MainUsers : show_graphs(u)
    \/ \E k \in MainKeys, what \in Ignored : unhandled(k[2], k[1], what)

Spec == Init /\ [][Next]_vars

\* The same user writing in two chats: the wizard with one valid answer per
\* step, the food flow and /cancel in either chat.
NextChats ==
    \/ \E k \in ChatKeys : set_profile(k[2], k[1])
    \/ \E k \in ChatKeys : weight_handler(k[2], k[1], "70")
    \/ \E k \in ChatKeys : height_handler(k[2], k[1], "175")
    \/ \E k \in ChatKeys : age_handler(k[2], k[1], "30")
    \/ \E k \in ChatKeys : gender_handler(k[2], k[1], "M")
    \/ \E k \in ChatKeys : activity_handler(k[2], k[1], "0")
    \/ \E k \in ChatKeys, text \in CityTexts : city_handler(k[2], k[1], text, None)
    \/ \E k \in ChatKeys : cancel(k[2], k[1])
    \/ \E k \in ChatKeys, args \in FoodArgs, found \in BOOLEAN :
          log_food_start(k[2], k[1], args, found)
    \/ \E k \in ChatKeys, text \in FoodAmountTexts : food_amount_handler(k[2], k[1], text)
    \/ \E k \in ChatKeys, what \in Ignored : unhandled(k[2], k[1], what)

SpecChats == Init /\ [][NextChats]_vars

\* One user in one chat answering the setup with numbers the handlers parse but
\* no body has, then logging workouts.
BodyWeightTexts == {"-5", "70"}
BodyHeightTexts == {"160"}
BodyAgeTexts == {"30", "341"}

NextBody ==
    \/ \E k \in MainKeys : set_profile(k[2], k[1])
    \/ \E k \in MainKeys, text \in BodyWeightTexts : weight_handler(k[2], k[1], text)
    \/ \E k \in MainKeys, text \in BodyHeightTexts : height_handler(k[2], k[1], text)
    \/ \E k \in MainKeys, text \in BodyAgeTexts : age_handler(k[2], k[1], text)
    \/ \E k \in MainKeys : gender_handler(k[2], k[1], "M")
    \/ \E k \in MainKeys : activity_handler(k[2], k[1], "0")
    \/ \E k \in MainKeys, text \in CityTexts : city_handler(k[2], k[1], text, None)
    \/ \E u \in MainUsers, args \in WorkoutArgs, lookup \in BurnRates :
          log_workout_start(u, args, lookup)
    \/ \E u \in MainUsers : check_progress(u)

SpecBody == Init /\ [][NextBody]_vars

\* Two users writing in the same chat, each with one valid answer per step of
\* the setup and one valid argument per command.
NextUsers ==
    \/ \E k \in UserKeys : set_profile(k[2], k[1])
    \/ \E k \in UserKeys : weight_handler(k[2], k[1], "70")
    \/ \E k \in UserKeys : height_handler(k[2], k[1], "175")
    \/ \E k \in UserKeys : age_handler(k[2], k[1], "30")
    \/ \E k \in UserKeys : gender_handler(k[2], k[1], "M")
    \/ \E k \in UserKeys : activity_handler(k[2], k[1], "0")
    \/ \E k \in UserKeys, text \in CityTexts : city_handler(k[2], k[1], text, None)
    \/ \E k \in UserKeys : cancel(k[2], k[1])
    \/ \E k \in UserKeys : log_water(k[2], <<"750">>)
    \/ \E k \in UserKeys : log_food_start(k[2], k[1], <<"apple">>, TRUE)
    \/ \E k \in UserKeys : food_amount_handler(k[2], k[1], "150")
    \/ \E k \in UserKeys : log_workout_start(k[2], <<"run", "45">>, None)
    \/ \E k \in UserKeys : check_progress(k[2])
    \/ \E k \in UserKeys : show_graphs(k[2])

SpecUsers == Init /\ [][NextUsers]_vars

-----------------------------------------------------------------------------
(* The handlers as coroutines.  A handler runs without interruption up to an  *)
(* await (its reply_text), where the event loop may run something else, and  *)
(* the ConversationHandler stores the state it returns once it has returned. *)
(* in_flight holds the calls that are waiting at their await.                *)

Call(h, u, c, path) == [handler |-> h, user |-> u, chat |-> c, path |-> path]

\* the Application built with concurrent_updates(True): an update is handed to
\* the handlers while earlier ones are still being handled
process_update_concurrent == TRUE

\* main() builds the Application with the default concurrent_updates: an update
\* is handed to the handlers only when the handling of the one before is over
process_update == in_flight = {}

\* lines 375-398: up to the reply; temp_food_data is still stored
food_amount_handler_begin(u, c, text) ==
    LET amount == ParseFloat(text)
        food_data == users[u].temp_food_data
    IN  /\ process_update
        /\ profile_conv[<<c, u>>] = END
        /\ food_conv[<<c, u>>] = FOOD_AMOUNT
        /\ IF amount = None \/ Val(amount) <= 0
           THEN /\ reply' = Reply("food_amount_handler", u, "invalid", 0, 0, 0)
                /\ in_flight' = in_flight \cup {Call("food_amount_handler", u, c, "invalid")}
                /\ UNCHANGED <<users, ledger_sums>>
           ELSE IF food_data = None
           THEN /\ reply' = Reply("food_amount_handler", u, "TypeError", 0, 0, 0)
                /\ UNCHANGED <<users, ledger_sums, in_flight>>
           ELSE LET calories == food_calories(Val(food_data), Val(amount))
                    logged_calories == users[u].logged_calories + calories
                IN  /\ runs + LogUsed < MaxOps
                    /\ users' = [users EXCEPT
                           ![u].logged_calories = logged_calories,
                           ![u].calorie_history = Append(@, logged_calories)]
                    /\ reply' = Reply("food_amount_handler", u, "logged", calories,
                                      logged_calories,
                                      Val(users[u].calorie_goal) * 100 - logged_calories
                                          + users[u].burned_calories * 100)
                    /\ ledger_sums' = [ledger_sums EXCEPT ![u].food = @ + calories]
                    /\ in_flight' = in_flight \cup {Call("food_amount_handler", u, c, "logged")}
        /\ UNCHANGED <<profile_conv, food_conv, wizard_entry, runs, calc>>

\* lines 400-401 after a food was logged, lines 403-405 after a re-prompt
food_amount_handler_end(i) ==
    /\ i \in in_flight /\ i.handler = "food_amount_handler"
    /\ IF i.path = "logged"
       THEN /\ users' = [users EXCEPT ![i.user].temp_food_data = None]
            /\ food_conv' = [food_conv EXCEPT ![<<i.chat, i.user>>] = END]
       ELSE UNCHANGED <<users, food_conv>>
    /\ in_flight' = in_flight \ {i}
    /\ UNCHANGED <<profile_conv, reply, ledger_sums, wizard_entry, runs, calc>>

\* lines 245-285: every write of city_handler comes before its reply
city_handler_begin(u, c, text, temperature) ==
    /\ process_update
    /\ profile_conv[<<c, u>>] = CITY
    /\ LET user_data == users[u]
           water_goal == calculate_water_goal(Val(user_data.weight),
                                              Val(user_data.activity), temperature)
           calorie_goal == calculate_calorie_goal(Val(user_data.weight),
                                                  Val(user_data.height),
                                                  Val(user_data.age),
                                                  Val(user_data.gender),
                                                  Val(user_data.activity))
       IN  /\ users' = [users EXCEPT ![u].city = Some(text),
                                     ![u].water_goal = Some(water_goal),
                                     ![u].calorie_goal = Some(calorie_goal),
                                     ![u].logged_water = 0,
                                     ![u].logged_calories = 0,
                                     ![u].burned_calories = 0]
           /\ reply' = Reply("city_handler", u, "profile", water_goal, calorie_goal, 0)
    /\ ledger_sums' = [ledger_sums EXCEPT ![u] = [food |-> 0, burn |-> 0]]
    /\ in_flight' = in_flight \cup {Call("city_handler", u, c, "profile")}
    /\ UNCHANGED <<profile_conv, food_conv, wizard_entry, runs, calc>>

\* line 286
city_handler_end(i) ==
    /\ i \in in_flight /\ i.handler = "city_handler"
    /\ profile_conv' = [profile_conv EXCEPT ![<<i.chat, i.user>>] = END]
    /\ wizard_entry' = [wizard_entry EXCEPT ![<<i.chat, i.user>>] = None]
    /\ in_flight' = in_flight \ {i}
    /\ UNCHANGED <<users, food_conv, reply, ledger_sums, runs, calc>>

Calls ==
    {Call(h, k[2], k[1], path) : h \in {"food_amount_handler", "city_handler"},
                                 k \in MainKeys, path \in {"invalid", "logged", "profile"}}

\* One user in one chat, the two handlers that write on both sides of an await
\* taken await by await, the others as a whole.
NextSteps ==
    \/ \E k \in MainKeys : process_update /\ set_profile(k[2], k[1])
    \/ \E k \in MainKeys : process_update /\ weight_handler(k[2], k[1], "70")
    \/ \E k \in MainKeys : process_update /\ height_handler(k[2], k[1], "175")
    \/ \E k \in MainKeys : process_update /\ age_handler(k[2], k[1], "30")
    \/ \E k \in MainKeys : process_update /\ gender_handler(k[2], k[1], "M")
    \/ \E k \in MainKeys : process_update /\ activity_handler(k[2], k[1], "0")
    \/ \E k \in MainKeys, text \in CityTexts, t \in Temperatures :
          city_handler_begin(k[2], k[1], text, t)
    \/ \E i \in Calls : city_handler_end(i)
    \/ \E k \in MainKeys : process_update /\ cancel(k[2], k[1])
    \/ \E k \in MainKeys, args \in FoodArgs, found \in BOOLEAN :
          process_update /\ log_food_start(k[2], k[1], args, found)
    \/ \E k \in MainKeys, text \in FoodAmountTexts :
          food_amount_handler_begin(k[2], k[1], text)
    \/ \E i \in Calls : food_amount_handler_end(i)
    \/ \E u \in MainUsers, args \in WaterArgs : process_update /\ log_water(u, args)
    \/ \E u \in MainUsers : process_update /\ check_progress(u)

SpecSteps == Init /\ [][NextSteps]_vars

-----------------------------------------------------------------------------
(* GoalCalculator on its own: the functions applied to inputs drawn from sets *)

\* hundredths of kg and of cm; years; minutes; hundredths of a degree
CalcWeights == {-500, 0, 50, 7000, 7050}
CalcHeights == {16050, 17500}
CalcAges == {0, 30, 65}
CalcGenders == {"M", "F"}
CalcActivities == {-5, 0, 29, 30, 45, 59, 60, 90}
CalcTemperatures == {None, Some(-500), Some(0), Some(2000), Some(2050), Some(2500),
                     Some(2550), Some(2600)}

water_goal_call(w, a, t) ==
    /\ calc' = [fn |-> "water", w |-> w, h |-> 0, age |-> 0, gender |-> "M", a |-> a,
                t |-> t, out |-> calculate_water_goal(w, a, t)]
    /\ UNCHANGED <<users, profile_conv, food_conv, reply, ledger_sums, wizard_entry, runs,
                 in_flight>>

calorie_goal_call(w, h, age, gender, a) ==
    /\ calc' = [fn |-> "calorie", w |-> w, h |-> h, age |-> age, gender |-> gender,
                a |-> a, t |-> None, out |-> calculate_calorie_goal(w, h, age, gender, a)]
    /\ UNCHANGED <<users, profile_conv, food_conv, reply, ledger_sums, wizard_entry, runs,
                 in_flight>>

NextCalc ==
    \/ \E w \in CalcWeights, a \in CalcActivities, t \in CalcTemperatures :
          water_goal_call(w, a, t)
    \/ \E w \in CalcWeights, h \in CalcHeights, age \in CalcAges, gender \in CalcGenders,
          a \in CalcActivities : calorie_goal_call(w, h, age, gender, a)

SpecCalc == Init /\ [][NextCalc]_vars

-----------------------------------------------------------------------------
(* Claims *)

\* C1: completing the CITY step fully resets the ledger: right after it
\* logged_water = logged_calories = burned_calories = 0 and both histories are
\* empty, whatever was logged before, the first time and every later time, with
\* the goals it has just computed stored.
C1_CityResetsLedger ==
    reply.handler = "city_handler" =>
        LET r == users[reply.user]
        IN  /\ r.water_goal = Some(reply.x) /\ r.calorie_goal = Some(reply.y)
            /\ r.logged_water = 0 /\ r.logged_calories = 0 /\ r.burned_calories = 0
            /\ r.water_history = <<>> /\ r.calorie_history = <<>>

\* the amount log_water reads from its arguments
WaterAmount(args) == IF args # <<>> THEN ParseInt(args[1]) ELSE Some(0)

\* C2: for a user whose profile setup has completed (the goals are stored),
\* log_water with an amount <= 0, a missing or a non-integer argument answers
\* with the invalid-amount usage text and leaves the whole record unchanged.
C2_InvalidWaterRejected ==
    [][\A u \in MainUsers, args \in WaterArgs :
          (/\ reply'.handler = "log_water"
           /\ u \in DOMAIN users
           /\ users[u].water_goal # None
           /\ (WaterAmount(args) = None \/ Val(WaterAmount(args)) <= 0)
           /\ log_water(u, args))
          => (reply'.msg = "usage" /\ users' = users)]_vars

\* C3: log_water never decreases logged_water; a successful log_water(a), a > 0,
\* adds exactly a, the remaining it computes is water_goal minus the new total
\* with no clamp, the goal is reported met exactly when that is <= 0, and the
\* clamp to 0 is what check_progress shows.
C3_WaterMonotone ==
    [][\A u \in MainUsers :
          /\ \A args \in WaterArgs :
                (reply'.handler = "log_water" /\ u \in DOMAIN users /\ log_water(u, args)) =>
                   /\ users'[u].logged_water >= users[u].logged_water
                   /\ reply'.msg \in {"remaining", "goal_met"} =>
                         /\ Val(WaterAmount(args)) > 0
                         /\ users'[u].logged_water
                               = users[u].logged_water + Val(WaterAmount(args))
                         /\ reply'.z = Val(users[u].water_goal)
                                          - users'[u].logged_water * 100
                         /\ (reply'.msg = "goal_met") <=> (reply'.z <= 0)
          /\ (reply'.handler = "check_progress" /\ reply'.msg = "progress"
                 /\ u \in DOMAIN users /\ check_progress(u)) =>
                /\ users'[u].logged_water = users[u].logged_water
                /\ LET left == Val(users[u].water_goal) - users[u].logged_water * 100
                   IN  reply'.x = IF left < 0 THEN 0 ELSE left]_vars

\* more was drunk than the goal: log_water computed a negative remaining
C3_Witness ==
    /\ reply.handler = "log_water" /\ reply.msg = "goal_met" /\ reply.z < 0
    /\ users[reply.user].logged_water * 100 > Val(users[reply.user].water_goal)

\* C4: after a completed profile setup and any interleaving of workouts and
\* foods, the balance check_progress reports is logged_calories minus
\* burned_calories, which is the sum of the foods logged minus the sum of the
\* burns logged since that setup, and the remaining it reports is calorie_goal
\* minus that balance.
C4_BalanceRoundTrip ==
    /\ \A u \in DOMAIN users :
          /\ users[u].logged_calories = ledger_sums[u].food
          /\ users[u].burned_calories = ledger_sums[u].burn
    /\ (reply.handler = "check_progress" /\ reply.msg = "progress") =>
          LET r == users[reply.user]
          IN  /\ reply.y = r.logged_calories - r.burned_calories * 100
              /\ reply.y = ledger_sums[reply.user].food - ledger_sums[reply.user].burn * 100
              /\ reply.z = Val(r.calorie_goal) * 100 - reply.y

C4_Witness ==
    /\ reply.handler = "check_progress" /\ reply.msg = "progress"
    /\ ledger_sums[reply.user].food > 0 /\ ledger_sums[reply.user].burn > 0
    /\ reply.y = ledger_sums[reply.user].food - ledger_sums[reply.user].burn * 100

PositiveReal(text) == ParseFloat(text) # None /\ Val(ParseFloat(text)) > 0
PositiveInt(text) == ParseInt(text) # None /\ Val(ParseInt(text)) > 0
NonNegativeInt(text) == ParseInt(text) # None /\ Val(ParseInt(text)) >= 0

\* a step that re-prompts: same dialogue states, same record
Reprompted ==
    /\ reply'.msg = "invalid"
    /\ users' = users /\ profile_conv' = profile_conv /\ food_conv' = food_conv

\* C6: invalid input at WEIGHT, HEIGHT, AGE, GENDER, ACTIVITY or at the food
\* amount re-prompts and leaves the dialogue in the same state with the record
\* unchanged.
C6_InvalidInputReprompts ==
    [][\A k \in MainKeys :
          /\ \A text \in WeightTexts :
                (~PositiveReal(text) /\ weight_handler(k[2], k[1], text)) => Reprompted
          /\ \A text \in HeightTexts :
                (~PositiveReal(text) /\ height_handler(k[2], k[1], text)) => Reprompted
          /\ \A text \in AgeTexts :
                (~PositiveInt(text) /\ age_handler(k[2], k[1], text)) => Reprompted
          /\ \A text \in GenderTexts :
                (text \notin {"M", "F"} /\ gender_handler(k[2], k[1], text)) => Reprompted
          /\ \A text \in ActivityTexts :
                (~NonNegativeInt(text) /\ activity_handler(k[2], k[1], text)) => Reprompted
          /\ \A text \in FoodAmountTexts :
                (~PositiveReal(text) /\ food_amount_handler(k[2], k[1], text))
                   => Reprompted]_vars

\* C7: /cancel at any wizard step leaves the six base attributes and both
\* goals as they were when the wizard was entered.
C7_CancelCommitsNothing ==
    [][\A k \in MainKeys :
          (profile_conv[k] # END /\ cancel(k[2], k[1]))
          => (/\ profile_conv'[k] = END
              /\ Profile(users'[k[2]]) = Val(wizard_entry[k]))]_vars

\* C8: a valid quantity reply while a lookup is pending adds exactly
\* (reference calories / reference serving) x amount to logged_calories (52 per
\* 100 g and 150 g give 78), appends one calorie_history entry equal to the new
\* total, clears the pending lookup and ends the flow; burned_calories,
\* logged_water and water_history keep their values.
C8_FoodLogged ==
    [][\A k \in MainKeys, text \in FoodAmountTexts :
          (/\ reply'.handler = "food_amount_handler"
           /\ PositiveReal(text)
           /\ k[2] \in DOMAIN users
           /\ users[k[2]].temp_food_data # None
           /\ food_amount_handler(k[2], k[1], text))
          => LET old == users[k[2]]
                 new == users'[k[2]]
                 ref == Val(old.temp_food_data)
                 amount == Val(ParseFloat(text))
             IN  /\ (ref.calories * amount) % (ref.serving_size * 100) = 0
                 /\ new.logged_calories - old.logged_calories
                       = (ref.calories * amount) \div (ref.serving_size * 100)
                 /\ (ref.calories = 5200 /\ amount = 15000)
                       => new.logged_calories - old.logged_calories = 7800
                 /\ new.calorie_history = Append(old.calorie_history, new.logged_calories)
                 /\ new.temp_food_data = None
                 /\ food_conv'[k] = END
                 /\ new.burned_calories = old.burned_calories
                 /\ new.logged_water = old.logged_water
                 /\ new.water_history = old.water_history]_vars

C8_Witness ==
    /\ reply.handler = "food_amount_handler" /\ reply.msg = "logged" /\ reply.x = 7800
    /\ users[reply.user].logged_calories = 7800
    /\ users[reply.user].calorie_history = <<7800>>
    /\ users[reply.user].temp_food_data = None
    /\ food_conv[<<1, reply.user>>] = END

\* the temperature bonus in ml as the specification words it
SpecBonus(t) ==
    IF t = None THEN 0
    ELSE IF Val(t) > 2500 THEN 750
    ELSE IF Val(t) > 2000 THEN 500
    ELSE 0

\* C9: for all weight w > 0 and activity a >= 0, waterGoal(w, a, t) is
\* w*30 + (a // 30)*500 + bonus(t), with bonus 750 above 25 degrees, 500 above 20
\* up to 25, and 0 at 20 or below or with no temperature; waterGoal(70, 45, 26)
\* is 3350.
C9_WaterGoalFormula ==
    calc.fn = "water" /\ calc.w > 0 /\ calc.a >= 0 =>
        /\ calc.out = calc.w * 30 + (calc.a \div 30) * 500 * 100 + SpecBonus(calc.t) * 100
        /\ calc.t = None => calc.out = calc.w * 30 + (calc.a \div 30) * 500 * 100
        /\ (calc.w = 7000 /\ calc.a = 45 /\ calc.t = Some(2600)) => calc.out = 335000

C9_Witness ==
    /\ calc.fn = "water" /\ calc.w = 7000 /\ calc.a = 45 /\ calc.t = Some(2600)
    /\ calc.out = 335000

\* 1200 times the real number the specification truncates
SpecCalories1200(w, h, age, gender, a) ==
    12 * (10 * w) + 12 * ((625 * h) \div 100) - 1200 * (5 * age)
    + 1200 * (IF gender = "M" THEN 5 ELSE -161) + 40 * (a * 250)

\* C10: calorieGoal(w, h, age, gender, a) is the integer truncation of
\* 10*w + 6.25*h - 5*age + (5 if MALE else -161) + (a/30)*250, the activity term
\* linear; calorieGoal(70, 175, 30, MALE, 60) is 2148.
C10_CalorieGoalFormula ==
    calc.fn = "calorie" =>
        LET x == SpecCalories1200(calc.w, calc.h, calc.age, calc.gender, calc.a)
        IN  /\ x >= 0 => calc.out * 1200 <= x /\ x < (calc.out + 1) * 1200
            /\ x < 0 => (calc.out - 1) * 1200 < x /\ x <= calc.out * 1200
            /\ (calc.w = 7000 /\ calc.h = 17500 /\ calc.age = 30 /\ calc.gender = "M"
                /\ calc.a = 60) => calc.out = 2148

C10_Witness ==
    /\ calc.fn = "calorie" /\ calc.w = 7000 /\ calc.h = 17500 /\ calc.age = 30
    /\ calc.gender = "M" /\ calc.a = 60 /\ calc.out = 2148

\* the six base attributes of a record are all stored
AllSet(r) ==
    /\ r.weight # None /\ r.height # None /\ r.age # None
    /\ r.gender # None /\ r.activity # None /\ r.city # None

\* C11: in every reachable state of every user, water_goal and calorie_goal
\* are both None exactly when the six base attributes are not all stored, and
\* neither goal is ever stored without the other; this at every step of a first
\* setup, of a second setup and after /cancel.
C11_GoalsIffProfile ==
    \A u \in DOMAIN users :
        LET r == users[u]
        IN  /\ (r.water_goal = None) <=> (r.calorie_goal = None)
            /\ (r.water_goal = None /\ r.calorie_goal = None) <=> ~AllSet(r)

\* a second setup abandoned by /cancel: the goals of the first are still stored
C11_Witness ==
    /\ reply.handler = "cancel" /\ reply.msg = "cancelled_profile" /\ runs = 2
    /\ AllSet(users[reply.user])
    /\ users[reply.user].water_goal # None /\ users[reply.user].calorie_goal # None

\* the goals stored for a user, None for both while the user has no record
GoalsOf(us, u) ==
    IF u \in DOMAIN us THEN <<us[u].water_goal, us[u].calorie_goal>> ELSE <<None, None>>

\* C12: the setup dialogue is linear: from each of WEIGHT, HEIGHT, AGE, GENDER,
\* ACTIVITY, CITY a step leads to the same state, to the next state in that
\* order, or to END, and to END only by /cancel or by city_handler from CITY; a
\* run starts at WEIGHT; the goals of a user change only in a step that takes
\* one of the user's dialogues from CITY to END.
C12_WizardLinear ==
    [][\A k \in ConvKeys :
          LET s == profile_conv[k]
              t == profile_conv'[k]
          IN  /\ s = END => t \in {END, WEIGHT}
              /\ s \in WEIGHT..ACTIVITY => t \in {s, s + 1, END}
              /\ s = CITY => t \in {CITY, END}
              /\ (s # END /\ t = END) =>
                    \/ reply'.handler = "cancel"
                    \/ s = CITY /\ reply'.handler = "city_handler"
              /\ GoalsOf(users', k[2]) # GoalsOf(users, k[2]) =>
                    \E c \in Chats :
                        /\ profile_conv[<<c, k[2]>>] = CITY
                        /\ profile_conv'[<<c, k[2]>>] = END
                        /\ reply'.handler = "city_handler"]_vars

\* a run that went through every step to END and stored the goals
C12_Witness ==
    /\ reply.handler = "city_handler" /\ reply.msg = "profile"
    /\ profile_conv[<<1, reply.user>>] = END
    /\ GoalsOf(users, reply.user) = <<Some(reply.x), Some(reply.y)>>
    /\ wizard_entry[<<1, reply.user>>] = None

\* C13: while the dialogue is in CITY every text is taken by city_handler,
\* whatever get_weather returns, and that step ends the dialogue with both
\* goals stored and the profile summary sent; with no temperature the water
\* goal stored is weight*30 + (activity // 30)*500, the goal without bonus.
C13_CityAlwaysEnds ==
    /\ [](\A k \in MainKeys :
            profile_conv[k] = CITY =>
                \A text \in CityTexts, t \in Temperatures :
                    ENABLED city_handler(k[2], k[1], text, t))
    /\ [][\A k \in MainKeys, text \in CityTexts, t \in Temperatures :
            (/\ reply'.handler = "city_handler"
             /\ profile_conv[k] = CITY
             /\ city_handler(k[2], k[1], text, t))
            => LET old == users[k[2]]
                   new == users'[k[2]]
               IN  /\ profile_conv'[k] = END
                   /\ reply'.msg = "profile"
                   /\ new.water_goal # None /\ new.calorie_goal # None
                   /\ new.city = Some(text)
                   /\ t = None =>
                         Val(new.water_goal)
                            = Val(old.weight) * 30
                              + (Val(old.activity) \div 30) * 500 * 100]_vars

\* a setup of weight 70, activity 0 finished with no temperature: 2100 ml
C13_Witness ==
    /\ reply.handler = "city_handler" /\ reply.msg = "profile" /\ reply.x = 210000
    /\ users[reply.user].weight = Some(7000)
    /\ users[reply.user].activity = Some(0)
    /\ users[reply.user].water_goal = Some(210000)
    /\ profile_conv[<<1, reply.user>>] = END

\* the duration log_workout_start reads from its arguments
WorkoutDuration(args) == IF Len(args) >= 2 THEN ParseInt(args[Len(args)]) ELSE None

\* 4200 times the real number of kcal the specification truncates, for a
\* weight in hundredths of kg
SpecBurn4200(lookup, minutes, weight) ==
    IF lookup = None THEN (minutes * 5 * weight * 60) \div 100
    ELSE (Val(lookup) * weight * minutes) \div 100

\* C14: for a user whose setup has completed, log_workout with a type and a
\* duration > 0 always records a burn, whatever the burn-rate lookup answers:
\* burned_calories grows by the truncation of minutes x 5 x (weight/70) when the
\* lookup is unavailable and of (rate/60) x (weight/70) x minutes otherwise.
C14_WorkoutAlwaysRecorded ==
    [][\A u \in MainUsers, args \in WorkoutArgs, lookup \in BurnRates :
          (/\ reply'.handler = "log_workout_start"
           /\ u \in DOMAIN users
           /\ users[u].water_goal # None /\ users[u].calorie_goal # None
           /\ WorkoutDuration(args) # None /\ Val(WorkoutDuration(args)) > 0
           /\ log_workout_start(u, args, lookup))
          => LET x == SpecBurn4200(lookup, Val(WorkoutDuration(args)), Val(users[u].weight))
                 burn == users'[u].burned_calories - users[u].burned_calories
             IN  /\ reply'.msg = "workout"
                 /\ reply'.x = burn
                 /\ x >= 0 => burn * 4200 <= x /\ x < (burn + 1) * 4200
                 /\ x < 0 => (burn - 1) * 4200 < x /\ x <= burn * 4200]_vars

\* C15: in every reachable state a stored weight, height or age is > 0 and a
\* stored activity is >= 0: the setup takes only positive numbers for the
\* first three and rejects zero and negative numbers like any invalid text.
C15_StoredAttributesPositive ==
    \A u \in DOMAIN users :
        LET r == users[u]
        IN  /\ r.weight # None => Val(r.weight) > 0
            /\ r.height # None => Val(r.height) > 0
            /\ r.age # None => Val(r.age) > 0
            /\ r.activity # None => Val(r.activity) >= 0

\* C16: in every reachable state of every user logged_water, logged_calories
\* and burned_calories are >= 0, whatever setups, waters, foods and workouts
\* came before.
C16_AccumulatorsNonNegative ==
    \A u \in DOMAIN users :
        /\ users[u].logged_water >= 0
        /\ users[u].logged_calories >= 0
        /\ users[u].burned_calories >= 0

\* the ledger part of a record is as init_user_data made it
LedgerInitial(r) ==
    /\ r.logged_water = 0 /\ r.logged_calories = 0 /\ r.burned_calories = 0
    /\ r.water_history = <<>> /\ r.calorie_history = <<>>
    /\ r.temp_food_data = None

\* the commands that need a completed profile
ProfileCommands ==
    {"log_water", "log_food_start", "log_workout_start", "check_progress", "show_graphs"}

\* C17: for a user whose setup never completed (no goal stored), log_water,
\* log_food, log_workout, check_progress and show_graphs each answer
\* set-up-your-profile-first and write nothing: the counters, the histories and
\* the pending lookup are as init_user_data made them, before and after, the
\* attributes keep their values and no food flow of the user is open.
C17_ProfileFirst ==
    /\ [](\A u \in DOMAIN users :
            GoalsOf(users, u) = <<None, None>> =>
                /\ LedgerInitial(users[u])
                /\ \A c \in Chats : food_conv[<<c, u>>] = END)
    /\ [][\A u \in MainUsers :
            (/\ reply'.handler \in ProfileCommands
             /\ reply'.user = u
             /\ GoalsOf(users, u) = <<None, None>>)
            => /\ reply'.msg = "profile_first"
               /\ users' = init_user_data(users, u)
               /\ LedgerInitial(users'[u])
               /\ GoalsOf(users', u) = <<None, None>>
               /\ food_conv' = food_conv /\ profile_conv' = profile_conv]_vars

\* log_food refused in the middle of a first setup
C17_Witness ==
    /\ reply.handler = "log_food_start" /\ reply.msg = "profile_first"
    /\ users[reply.user].weight # None /\ users[reply.user].city = None
    /\ GoalsOf(users, reply.user) = <<None, None>>
    /\ LedgerInitial(users[reply.user])
    /\ food_conv[<<1, reply.user>>] = END

\* C18: a successful log_workout(type, d) adds the burn it reports to
\* burned_calories, appends to calorie_history one entry, the negated new
\* burned_calories, and to water_history one entry, -(d // 30) x 200, and leaves
\* logged_water, logged_calories, the attributes, the goals and the pending
\* lookup as they were; the remaining it reports is calorie_goal -
\* logged_calories + burned_calories, the extra water (d // 30) x 200.
C18_WorkoutFrame ==
    [][\A u \in MainUsers, args \in WorkoutArgs, lookup \in BurnRates :
          (/\ reply'.handler = "log_workout_start" /\ reply'.msg = "workout"
           /\ u \in DOMAIN users
           /\ log_workout_start(u, args, lookup))
          => LET old == users[u]
                 new == users'[u]
                 d == Val(WorkoutDuration(args))
             IN  /\ new.burned_calories = old.burned_calories + reply'.x
                 /\ new.calorie_history
                       = Append(old.calorie_history, -(new.burned_calories * 100))
                 /\ new.water_history = Append(old.water_history, -((d \div 30) * 200))
                 /\ new.logged_water = old.logged_water
                 /\ new.logged_calories = old.logged_calories
                 /\ Profile(new) = Profile(old)
                 /\ new.temp_food_data = old.temp_food_data
                 /\ reply'.y = (d \div 30) * 200
                 /\ reply'.z = Val(old.calorie_goal) * 100 - old.logged_calories
                                  + new.burned_calories * 100]_vars

\* 45 minutes at 600 kcal per hour and 70 kg after an apple was logged
C18_Witness ==
    /\ reply.handler = "log_workout_start" /\ reply.msg = "workout" /\ reply.x = 450
    /\ users[reply.user].burned_calories = 450
    /\ users[reply.user].logged_calories = 7800
    /\ users[reply.user].calorie_history = <<7800, -45000>>
    /\ users[reply.user].water_history = <<-200>>
    /\ users[reply.user].logged_water = 0

\* C19: water_history is an append-only sequence of snapshots of the total:
\* every step leaves it as it was or appends one entry, and the entry appended
\* is logged_water at that moment, whether the step is a log_water, a
\* log_workout or a step of the setup.
C19_WaterHistorySnapshots ==
    [][\A u \in DOMAIN users :
          LET old == users[u]
              new == users'[u]
          IN  \/ new.water_history = old.water_history
              \/ new.water_history = Append(old.water_history, new.logged_water)]_vars

\* everything the program keeps for a user: the record, if any, and the
\* states of the user's two dialogues in every chat
StateOf(us, pc, fc, u) ==
    <<IF u \in DOMAIN us THEN {us[u]} ELSE {},
      [c \in Chats |-> pc[<<c, u>>]],
      [c \in Chats |-> fc[<<c, u>>]]>>

\* C20: a command or a text handled for one user (a step of the setup,
\* /cancel, log_water, log_food or its amount, log_workout, check_progress,
\* show_graphs) leaves the record and both dialogue states of every other user
\* as they were.
C20_UsersIndependent ==
    [][\A a \in Users, b \in Users :
          (a # b /\ reply'.user = a)
          => StateOf(users', profile_conv', food_conv', b)
                = StateOf(users, profile_conv, food_conv, b)]_vars

\* user 2 logs water after user 1 was set up and logged a workout
C20_Witness ==
    /\ reply.handler = "log_water" /\ reply.user = 2 /\ reply.msg = "remaining"
    /\ DOMAIN users = {1, 2}
    /\ users[2].logged_water = 750
    /\ users[1].logged_water = 0 /\ users[1].burned_calories = 225
    /\ users[1].water_history = <<-200>> /\ users[2].water_history = <<750>>

\* a step in which a call that was waiting at its await runs to its end
CallEnds == in_flight' # in_flight /\ in_flight' \subseteq in_flight

\* C21: the handling of two updates of one user never interleaves: at most
\* one call for a user is waiting at its await, and no handler starts for a
\* user while a call for that user is waiting, for instance between
\* food_amount_handler adding to logged_calories and clearing temp_food_data, or
\* between city_handler storing the goals and the dialogue reaching END.
C21_HandlersSerialized ==
    /\ [](\A u \in Users : Cardinality({i \in in_flight : i.user = u}) <= 1)
    /\ [][~CallEnds => \A i \in in_flight : i.user # reply'.user]_vars

\* food_amount_handler at its reply: the calories are added, the lookup is
\* still stored and the food flow still open
C21_Witness ==
    /\ in_flight = {Call("food_amount_handler", 1, 1, "logged")}
    /\ users[1].logged_calories = 7800
    /\ users[1].temp_food_data # None
    /\ food_conv[<<1, 1>>] = FOOD_AMOUNT

\* C22: in every reachable state a user's temp_food_data is stored exactly
\* when a food flow of that user is in FOOD_AMOUNT; no lookup stays stored
\* once the flow has ended, by a logged amount, by /cancel or by a lookup
\* that found nothing.
C22_PendingIffAwaiting ==
    \A u \in DOMAIN users :
        (users[u].temp_food_data # None)
            <=> (\E c \in Chats : food_conv[<<c, u>>] = FOOD_AMOUNT)

\* the setup and the food flow of (chat, user) are both open
BothActive(k) == profile_conv[k] # END /\ food_conv[k] = FOOD_AMOUNT

\* the step of the setup that (chat, user) is at takes the text
WizardTakes(k, text) ==
    ENABLED (\/ weight_handler(k[2], k[1], text)
             \/ height_handler(k[2], k[1], text)
             \/ age_handler(k[2], k[1], text)
             \/ gender_handler(k[2], k[1], text)
             \/ activity_handler(k[2], k[1], text)
             \/ city_handler(k[2], k[1], text, None))

\* C23: while the setup and the food flow of a user are both open, a text
\* is taken by the setup and not by food_amount_handler, and every step leaves
\* the food flow in FOOD_AMOUNT and temp_food_data as it was; once the setup
\* has ended, the next text is taken by food_amount_handler and by no step of
\* the setup.
C23_WizardTakesText ==
    /\ [](\A k \in MainKeys, text \in FoodAmountTexts :
            /\ BothActive(k) =>
                  /\ WizardTakes(k, text)
                  /\ ~ENABLED food_amount_handler(k[2], k[1], text)
            /\ (profile_conv[k] = END /\ food_conv[k] = FOOD_AMOUNT
                   /\ (PositiveReal(text) => runs + LogUsed < MaxOps)) =>
                  /\ ~WizardTakes(k, text)
                  /\ ENABLED food_amount_handler(k[2], k[1], text))
    /\ [][\A k \in MainKeys :
            BothActive(k) =>
                /\ reply'.handler # "food_amount_handler"
                /\ food_conv'[k] = FOOD_AMOUNT
                /\ users'[k[2]].temp_food_data = users[k[2]].temp_food_data]_vars

\* /log_food apple, then /set_profile and a first answer before any amount
C23_Witness ==
    /\ reply.handler = "weight_handler" /\ reply.msg = "ask_height"
    /\ profile_conv[<<1, 1>>] = HEIGHT /\ food_conv[<<1, 1>>] = FOOD_AMOUNT
    /\ users[1].temp_food_data # None
    /\ runs = 2

====
